---------------------------- MODULE Spec2Model ----------------------------
(***************************************************************************)
(* A model of src/api/post.rs of bahamut-tui: the URL parameter parser,    *)
(* the PostPage paginated resource, PostPageRef, and the extraction of a   *)
(* Post (title, replies, description tokens) from a document.              *)
(*                                                                         *)
(* Text is a sequence of one-character strings, so that parsing and        *)
(* formatting of numbers are computed and not assumed.  An Option is a     *)
(* sequence of length at most one: <<>> is None and <<v>> is Some(v).      *)
(***************************************************************************)
EXTENDS Integers, Sequences, FiniteSets, TLC

VARIABLES
    board_id,   \* PostPage.board_id
    id,         \* PostPage.id
    page,       \* PostPage.page
    max,        \* PostPage.max
    floor,      \* PostPage.floor
    cache,      \* PostPage.cache: page number -> Option<Post>
    fetches,    \* number of Fetcher invocations per page number
    inits,      \* number of calls of PostPage::init so far
    panicked,   \* TRUE once a call has panicked (the thread unwinds)
    op,         \* the operation called last
    document,   \* the local `document` of the last call, when it was init()
    ret,        \* the value the last call returned (get, PostPageRef::try_from)
    web,        \* the input of the extraction functions: WebSite { url, document }
    fn,         \* the pure function applied last to web
    out         \* what that function returned

vars == <<board_id, id, page, max, floor, cache, fetches, inits, panicked, op,
          document, ret, web, fn, out>>

pageVars == <<board_id, id, page, max, floor, cache, fetches, inits, panicked,
              op, document, ret>>

fnVars == <<web, fn, out>>

-----------------------------------------------------------------------------
(* Bounds of the model. *)

\* the longest query string, in key=value pairs
MaxPairs == 3
\* the largest page number get() is called with and advance() walks to
MaxNavPage == 2
\* the largest number of Fetcher invocations per page
MaxFetches == 2
\* the largest number of reply blocks of a document
MaxBlocks == 2
\* the largest number of wrappers of a reply's content
MaxWrappers == 1
\* the largest number of div children of a wrapper
MaxDivs == 2
\* the largest number of linked images of a div
MaxImgs == 2
\* the largest number of text nodes of an element
MaxTexts == 2

(* Program constants. *)

\* u16::MAX, the width of page, max and floor
U16Max == 65535

-----------------------------------------------------------------------------
(* Option and text helpers. *)

None == <<>>

Some(v) == <<v>>

IsSome(o) == o # <<>>

Unwrap(o) == o[1]

Digits == {"0", "1", "2", "3", "4", "5", "6", "7", "8", "9"}

DigitValue(c) ==
    CASE c = "0" -> 0 [] c = "1" -> 1 [] c = "2" -> 2 [] c = "3" -> 3
      [] c = "4" -> 4 [] c = "5" -> 5 [] c = "6" -> 6 [] c = "7" -> 7
      [] c = "8" -> 8 [] c = "9" -> 9

DigitChar(n) ==
    CASE n = 0 -> "0" [] n = 1 -> "1" [] n = 2 -> "2" [] n = 3 -> "3"
      [] n = 4 -> "4" [] n = 5 -> "5" [] n = 6 -> "6" [] n = 7 -> "7"
      [] n = 8 -> "8" [] n = 9 -> "9"

RECURSIVE AccumulateU16(_, _)
\* the digit loop of str::parse::<u16>: checked multiply-and-add; -1 is Err
AccumulateU16(s, acc) ==
    IF s = <<>> THEN acc
    ELSE IF Head(s) \notin Digits THEN -1
    ELSE LET n == acc * 10 + DigitValue(Head(s))
         IN  IF n > U16Max THEN -1 ELSE AccumulateU16(Tail(s), n)

\* str::parse::<u16>() as an Option: empty, a lone sign, a non-digit and an
\* overflow are errors; one leading "+" is accepted, "-" is not
ParseU16(s) ==
    IF s = <<>> \/ s = <<"+">> \/ s = <<"-">> THEN None
    ELSE LET d == IF Head(s) = "+" THEN Tail(s) ELSE s
             r == AccumulateU16(d, 0)
         IN  IF r < 0 THEN None ELSE Some(r)

RECURSIVE FormatU16(_)
\* the Display of a u16 inside format!(): its decimal digits
FormatU16(n) ==
    IF n < 10 THEN <<DigitChar(n)>>
    ELSE Append(FormatU16(n \div 10), DigitChar(n % 10))

RECURSIVE Concat(_)
\* Iterator<Item = &str>::collect::<String>(): the texts joined
Concat(ts) == IF ts = <<>> THEN <<>> ELSE Head(ts) \o Concat(Tail(ts))

RECURSIVE Flatten(_)
\* Iterator::flatten(): a sequence of sequences joined
Flatten(ss) == IF ss = <<>> THEN <<>> ELSE Head(ss) \o Flatten(Tail(ss))

\* the sequences over S of length at most n
SeqUpTo(S, n) == UNION {[1..k -> S] : k \in 0..n}

-----------------------------------------------------------------------------
(* URLs.  A URL string either fails Url::parse or has a query: a sequence  *)
(* of raw <<key, value>> pairs.  query_pairs() decodes each value.         *)

RECURSIVE Decode(_)
\* form_urlencoded decoding of a value: "+" stands for a space and %2B for
\* "+" (the one percent escape of the modelled alphabet)
Decode(t) ==
    IF t = <<>> THEN <<>>
    ELSE IF Len(t) >= 3 /\ SubSeq(t, 1, 3) = <<"%", "2", "B">>
         THEN <<"+">> \o Decode(SubSeq(t, 4, Len(t)))
    ELSE IF Head(t) = "+" THEN <<" ">> \o Decode(Tail(t))
    ELSE <<Head(t)>> \o Decode(Tail(t))

\* Url::query_pairs(): the decoded pairs in order
QueryPairs(url) == [i \in 1..Len(url.query) |-> <<url.query[i][1], Decode(url.query[i][2])>>]

\* PostPageUrlParameter::default()
DefaultParameter == [board_id |-> <<>>, id |-> <<>>, floor |-> 0]

FloorOfMutant(v) == IF IsSome(ParseU16(v)) THEN Unwrap(ParseU16(v)) ELSE 1

\* v.to_string().parse::<u16>().map_or(0, |v| v)
FloorOf(v) == IF IsSome(ParseU16(v)) THEN Unwrap(ParseU16(v)) ELSE 0

\* the closure of for_each: the three ifs on the key
VisitPair(ppup, k, v) ==
    LET a == IF k = "snA" THEN [ppup EXCEPT !.id = v] ELSE ppup
        b == IF k = "bsn" THEN [a EXCEPT !.board_id = v] ELSE a
    IN  IF k = "tnum" THEN [b EXCEPT !.floor = FloorOf(v)] ELSE b

RECURSIVE ForEachPair(_, _)
ForEachPair(pairs, ppup) ==
    IF pairs = <<>> THEN ppup
    ELSE ForEachPair(Tail(pairs), VisitPair(ppup, Head(pairs)[1], Head(pairs)[2]))

\* impl TryFrom<Url> for PostPageUrlParameter: always Ok
ParameterFromUrl(url) ==
    [ok |-> TRUE, err |-> "", val |-> ForEachPair(QueryPairs(url), DefaultParameter)]

\* impl TryFrom<String> for PostPageUrlParameter
ParameterFromString(value) ==
    IF ~value.valid
    THEN [ok |-> FALSE, err |-> "invalid url string", val |-> DefaultParameter]
    ELSE ParameterFromUrl(value)

RECURSIVE Find(_, _)
\* url.query_pairs().find(|(k, _)| k == key).map(|(_, v)| v)
Find(pairs, key) ==
    IF pairs = <<>> THEN None
    ELSE IF Head(pairs)[1] = key THEN Some(Head(pairs)[2])
    ELSE Find(Tail(pairs), key)

\* Post::try_id_from_url
try_id_from_url(url) ==
    LET query == Find(QueryPairs(url), "snA")
    IN  IF IsSome(query) THEN [kind |-> "some", val |-> Unwrap(query)]
        ELSE [kind |-> "none", val |-> <<>>]

\* Post::try_last_floor_from_url: query.parse().unwrap() panics on a value
\* that is no u16
try_last_floor_from_url(url) ==
    LET query == Find(QueryPairs(url), "tnum")
    IN  IF ~IsSome(query) THEN [kind |-> "none", val |-> 0]
        ELSE IF ~IsSome(ParseU16(Unwrap(query))) THEN [kind |-> "panic", val |-> 0]
        ELSE [kind |-> "some", val |-> Unwrap(ParseU16(Unwrap(query)))]

-----------------------------------------------------------------------------
(* Documents.  A document is what the selectors of post.rs see of it:      *)
(*   pager  : the ".BH-pagebtnA a" links, each the sequence of its text    *)
(*            nodes;                                                       *)
(*   blocks : the ".c-section[id]" reply blocks in document order, each    *)
(*     title   : its ".c-post__header__title" elements (text nodes each),  *)
(*     content : its ".c-article__content" wrappers, each with             *)
(*                 text : the wrapper's text nodes,                        *)
(*                 div  : its "div" descendants, each with                 *)
(*                   youtube : the data-src (an Option) of each            *)
(*                             ".video-youtube iframe",                    *)
(*                   img     : the data-src (an Option) of each "a img",   *)
(*                   text    : the div's text nodes,                       *)
(*     user    : what User::try_from makes of the block (an Option),       *)
(*     floor   : the data-floor (an Option) of each ".floor" element,      *)
(*     date    : its ".edittime" elements (text nodes each).               *)

\* PostPage::try_page_from_html: last()? and next()? give None, and
\* parse().unwrap() panics on a text that is no u16
try_page_from_html(doc) ==
    IF doc.pager = <<>> THEN [kind |-> "none", val |-> 0]
    ELSE LET last == doc.pager[Len(doc.pager)]
         IN  IF last = <<>> THEN [kind |-> "none", val |-> 0]
             ELSE IF ~IsSome(ParseU16(Head(last))) THEN [kind |-> "panic", val |-> 0]
             ELSE [kind |-> "some", val |-> Unwrap(ParseU16(Head(last)))]

\* Post::try_title_from_html on a reply block
try_title_from_html(block) ==
    IF block.title = <<>> THEN None ELSE Some(Concat(Head(block.title)))

\* the closure over the div children of a wrapper: None drops the child
DivTokens(el) ==
    IF el.youtube # <<>>
    THEN IF IsSome(Head(el.youtube))
         THEN [kind |-> "some", val |-> <<Unwrap(Head(el.youtube))>>]
         ELSE [kind |-> "none", val |-> <<>>]
    ELSE IF el.img # <<>>
    THEN IF \E i \in 1..Len(el.img) : ~IsSome(el.img[i])
         THEN [kind |-> "panic", val |-> <<>>]
         ELSE [kind |-> "some", val |-> [i \in 1..Len(el.img) |-> Unwrap(el.img[i])]]
    ELSE [kind |-> "some", val |-> <<Concat(el.text)>>]

\* the closure over the wrappers: a wrapper without div children gives its
\* text nodes, collected into a Vec<String>, one token each
WrapperTokens(el) ==
    IF el.div = <<>> THEN [kind |-> "some", val |-> el.text]
    ELSE LET t == [i \in 1..Len(el.div) |-> DivTokens(el.div[i])]
         IN  IF \E i \in 1..Len(t) : t[i].kind = "panic"
             THEN [kind |-> "panic", val |-> <<>>]
             ELSE [kind |-> "some", val |-> Flatten([i \in 1..Len(t) |-> t[i].val])]

\* PostContent::try_desc_from_html on a reply block
try_desc_from_html(block) ==
    LET t == [i \in 1..Len(block.content) |-> WrapperTokens(block.content[i])]
    IN  IF \E i \in 1..Len(t) : t[i].kind = "panic"
        THEN [kind |-> "panic", val |-> <<>>]
        ELSE [kind |-> "some", val |-> Flatten([i \in 1..Len(t) |-> t[i].val])]

\* PostContent::try_floor_from_html: both unwrap()s panic, a data-floor that
\* is no u16 gives 0
try_floor_from_html(block) ==
    IF block.floor = <<>> THEN [kind |-> "panic", val |-> 0]
    ELSE IF ~IsSome(Head(block.floor)) THEN [kind |-> "panic", val |-> 0]
    ELSE [kind |-> "some", val |-> FloorOf(Unwrap(Head(block.floor)))]

\* PostContent::try_date_from_html
try_date_from_html(block) ==
    IF block.date = <<>> THEN None
    ELSE IF Head(block.date) = <<>> THEN None
    ELSE Some(Head(Head(block.date)))

\* the filter_map closure of Post::posts: desc, user, floor and date are
\* evaluated in this order, and the first None ends the evaluation
PostContentOf(dom) ==
    LET desc == try_desc_from_html(dom)
        flr  == try_floor_from_html(dom)
        date == try_date_from_html(dom)
        nil  == [desc |-> <<>>, user |-> <<>>, floor |-> 0, date |-> <<>>]
    IN  IF desc.kind = "panic" THEN [kind |-> "panic", val |-> nil]
        ELSE IF ~IsSome(dom.user) THEN [kind |-> "none", val |-> nil]
        ELSE IF flr.kind = "panic" THEN [kind |-> "panic", val |-> nil]
        ELSE IF ~IsSome(date) THEN [kind |-> "none", val |-> nil]
        ELSE [kind |-> "some",
              val |-> [desc |-> desc.val, user |-> Unwrap(dom.user),
                       floor |-> flr.val, date |-> Unwrap(date)]]

RECURSIVE Kept(_, _)
\* filter_map: the values of the first n results that are Some, in order
Kept(s, n) ==
    IF n = 0 THEN <<>>
    ELSE IF s[n].kind = "some" THEN Append(Kept(s, n - 1), s[n].val)
    ELSE Kept(s, n - 1)

\* Post::posts on the document's root element
posts(doc) ==
    LET c == [i \in 1..Len(doc.blocks) |-> PostContentOf(doc.blocks[i])]
    IN  IF \E i \in 1..Len(c) : c[i].kind = "panic"
        THEN [kind |-> "panic", val |-> <<>>]
        ELSE [kind |-> "ok", val |-> Kept(c, Len(c))]

NoPost == [id |-> <<>>, title |-> <<>>, posts |-> <<>>, floor |-> 0]

\* impl TryFrom<WebSite> for Post: the first reply block is unwrap()ped
\* before anything else, then id, floor, title and posts in this order
PostFromWebSite(w) ==
    LET i == try_id_from_url(w.url)
        f == try_last_floor_from_url(w.url)
        p == posts(w.document)
    IN  IF w.document.blocks = <<>> THEN [kind |-> "panic", err |-> "", val |-> NoPost]
        ELSE IF i.kind = "none" THEN [kind |-> "err", err |-> "can't get id", val |-> NoPost]
        ELSE IF f.kind = "panic" THEN [kind |-> "panic", err |-> "", val |-> NoPost]
        ELSE IF f.kind = "none"
             THEN [kind |-> "err", err |-> "can't get last floor", val |-> NoPost]
        ELSE IF ~IsSome(try_title_from_html(Head(w.document.blocks)))
             THEN [kind |-> "err", err |-> "post title invalid", val |-> NoPost]
        ELSE IF p.kind = "panic" THEN [kind |-> "panic", err |-> "", val |-> NoPost]
        ELSE [kind |-> "ok", err |-> "",
              val |-> [id |-> i.val, floor |-> f.val,
                       title |-> Unwrap(try_title_from_html(Head(w.document.blocks))),
                       posts |-> p.val]]

-----------------------------------------------------------------------------
(* The PostPage state machine.                                             *)

\* the documents the Fetcher may return for a page of a thread
GoodBlock ==
    [title |-> <<<< <<"T">> >>>>,
     content |-> <<[text |-> << <<"a">> >>, div |-> <<>>]>>,
     user |-> Some("u1"),
     floor |-> <<Some(<<"1">>)>>,
     date |-> <<<< <<"d">> >>>>]

UntitledBlock == [GoodBlock EXCEPT !.title = <<>>]

Link(t) == <<t>>

SevenLinks == [i \in 1..7 |-> Link(FormatU16(i))]

Pagers ==
    { <<>>,                                      \* no pagination control
      SevenLinks,                                \* links "1".."7"
      <<Link(<<"1">>), Link(<<"2">>)>>,          \* links "1", "2"
      <<Link(<<"1">>), Link(<<"n", "e", "x", "t">>)>>,  \* the last link is no number
      <<Link(<<"1">>), <<>>>> }                  \* the last link has no text

\* a page with each pagination control, and the seven-link page with each
\* kind of reply blocks
FetchedDocuments ==
    {[pager |-> p, blocks |-> <<GoodBlock>>] : p \in Pagers}
      \cup {[pager |-> SevenLinks, blocks |-> b] : b \in {<<>>, <<UntitledBlock>>}}

BoardIds == {<<"6", "0">>}

ThreadIds == {<<"9">>}

Floors == {5}

Pages == 1..MaxNavPage

\* PostPage::new
new(b, i) ==
    /\ board_id = b
    /\ id = i
    /\ page = 1
    /\ max = 0
    /\ floor = 0
    /\ cache = <<>>

\* impl CachedPage<Post> for PostPage: url(), the query of the formatted URL
url(p) ==
    [valid |-> TRUE,
     query |-> << <<"bsn", board_id>>, <<"snA", id>>,
                  <<"page", FormatU16(p)>>, <<"tnum", FormatU16(floor)>> >>]

\* insert_cache: HashMap::insert
insert_cache(p, obj) ==
    [q \in (DOMAIN cache) \cup {p} |-> IF q = p THEN obj ELSE cache[q]]

\* the Fetcher is invoked once for page p
Fetched(p) ==
    IF p \in DOMAIN fetches THEN [fetches EXCEPT ![p] = @ + 1] ELSE fetches

\* the value init() stores into self.max
InitMax(doc) == try_page_from_html(doc).val

\* PostPage::init: get_page_html(1) fetches page 1, without the cache
init ==
    /\ ~panicked
    /\ fetches[1] < MaxFetches
    /\ \E doc \in FetchedDocuments :
         /\ document' = Some(doc)
         /\ IF try_page_from_html(doc).kind = "panic"
            THEN panicked' = TRUE /\ max' = max
            ELSE panicked' = FALSE /\ max' = InitMax(doc)
    /\ fetches' = Fetched(1)
    /\ inits' = inits + 1
    /\ op' = "init"
    /\ ret' = None
    /\ UNCHANGED <<board_id, id, page, floor, cache, web, fn, out>>

FloorMutant(f) ==
    /\ ~panicked
    /\ max' = f
    /\ op' = "floor"
    /\ document' = None
    /\ ret' = None
    /\ UNCHANGED <<board_id, id, page, floor, cache, fetches, inits, panicked, web, fn, out>>

\* PostPage::floor
Floor(f) ==
    /\ ~panicked
    /\ floor' = f
    /\ op' = "floor"
    /\ document' = None
    /\ ret' = None
    /\ UNCHANGED <<board_id, id, page, max, cache, fetches, inits, panicked, web, fn, out>>

\* CachedPage::get: the cached value, or else fetch, parse, insert and return
get(p) ==
    /\ ~panicked
    /\ op' = "get"
    /\ IF p \in DOMAIN cache
       THEN /\ ret' = Some(cache[p])
            /\ document' = None
            /\ UNCHANGED <<cache, fetches, panicked>>
       ELSE /\ fetches[p] < MaxFetches
            /\ fetches' = Fetched(p)
            /\ \E doc \in FetchedDocuments :
                 LET parsed == PostFromWebSite([url |-> url(p), document |-> doc])
                 IN  /\ document' = None
                     /\ IF parsed.kind = "panic"
                        THEN panicked' = TRUE /\ cache' = cache /\ ret' = None
                        ELSE LET obj == IF parsed.kind = "ok" THEN Some(parsed.val) ELSE None
                             IN  /\ panicked' = FALSE
                                 /\ cache' = insert_cache(p, obj)
                                 /\ ret' = Some(obj)
    /\ UNCHANGED <<board_id, id, page, max, floor, inits, web, fn, out>>

\* the effect of self.page += 1 on a page below u16::MAX
IncreasedBy(n) == n + 1

\* increase_page: self.page += 1; at u16::MAX a debug build panics and a
\* release build wraps to 0
increase_page ==
    /\ ~panicked
    /\ page < MaxNavPage \/ page = U16Max
    /\ op' = "increase_page"
    /\ IF page < U16Max
       THEN page' = IncreasedBy(page) /\ panicked' = FALSE
       ELSE \/ page' = page /\ panicked' = TRUE
            \/ page' = 0 /\ panicked' = FALSE
    /\ document' = None
    /\ ret' = None
    /\ UNCHANGED <<board_id, id, max, floor, cache, fetches, inits, web, fn, out>>

DecreasedByMutant(n) == IF n >= 2 THEN n - 2 ELSE 0

\* the effect of self.page -= 1 on a page above 0
DecreasedBy(n) == n - 1

\* decrease_page: self.page -= 1; at 0 a debug build panics and a release
\* build wraps to u16::MAX
decrease_page ==
    /\ ~panicked
    /\ page <= MaxNavPage
    /\ op' = "decrease_page"
    /\ IF page > 0
       THEN page' = DecreasedBy(page) /\ panicked' = FALSE
       ELSE \/ page' = page /\ panicked' = TRUE
            \/ page' = U16Max /\ panicked' = FALSE
    /\ document' = None
    /\ ret' = None
    /\ UNCHANGED <<board_id, id, max, floor, cache, fetches, inits, web, fn, out>>

\* impl TryFrom<&PostPage> for PostPageRef
PostPageRefFrom ==
    [board_id |-> board_id, id |-> id, page |-> page, max |-> page, floor |-> floor]

\* PostPageRef::try_from(&page): always Ok
page_ref ==
    /\ ~panicked
    /\ op' = "PostPageRef::try_from"
    /\ ret' = Some(PostPageRefFrom)
    /\ document' = None
    /\ UNCHANGED <<board_id, id, page, max, floor, cache, fetches, inits, panicked, web, fn, out>>

NoWebSite == [url |-> [valid |-> FALSE, query |-> <<>>], document |-> [pager |-> <<>>, blocks |-> <<>>]]

Init ==
    /\ \E b \in BoardIds, i \in ThreadIds : new(b, i)
    /\ fetches = [p \in Pages |-> 0]
    /\ inits = 0
    /\ panicked = FALSE
    /\ op = "new"
    /\ document = None
    /\ ret = None
    /\ web = NoWebSite
    /\ fn = "none"
    /\ out = None

Next ==
    \/ init
    \/ \E f \in Floors : Floor(f)
    \/ \E p \in Pages : get(p)
    \/ increase_page
    \/ decrease_page
    \/ page_ref

Spec == Init /\ [][Next]_vars

-----------------------------------------------------------------------------
(* What the claims call a number: a non-empty text of decimal digits, and  *)
(* its value.                                                              *)

IsNumber(t) == t # <<>> /\ \A i \in 1..Len(t) : t[i] \in Digits

RECURSIVE NumberValue(_)
NumberValue(t) ==
    IF t = <<>> THEN 0
    ELSE 10 * NumberValue(SubSeq(t, 1, Len(t) - 1)) + DigitValue(t[Len(t)])

-----------------------------------------------------------------------------
(* Claims about the PostPage state machine, checked under Spec.            *)

\* C1: over the lifetime of a PostPage the Fetcher is invoked at most once
\* per page number, init()'s fetch of page 1 included, and a cached page
\* keeps the value it was cached with.
C1_AtMostOneFetchPerPage ==
    [][ /\ \A p \in Pages : fetches'[p] <= 1
        /\ \A p \in DOMAIN cache : p \in DOMAIN cache' /\ cache'[p] = cache[p] ]_vars

\* the max page C2 expects of the page-1 document
ClaimedMaxPage(doc) ==
    IF doc.pager = <<>> THEN 0
    ELSE LET text == Concat(doc.pager[Len(doc.pager)])
         IN  IF IsNumber(text) THEN NumberValue(text) ELSE 0

\* C2: init() completes normally and leaves max equal to the number the
\* last pagination link of page 1 shows, or 0 when the pagination control
\* is absent or that link's text is no number.
C2_InitSetsMaxOrZero ==
    op = "init" => ~panicked /\ max = ClaimedMaxPage(Unwrap(document))

C4_PageAtLeastOne ==
    /\ page >= 1
    /\ ~(panicked /\ op \in {"increase_page", "decrease_page"})

\* C4 as amended: advance() below 65535 and retreat() above 1 move a page
\* that is at least 1 by exactly one, leave it at least 1 and do not fail;
\* no other operation moves it.
C4_PageAtLeastOneWhenCallersCheck ==
    [][ /\ (op' = "increase_page" /\ page >= 1 /\ page < U16Max
              => page' = page + 1 /\ page' >= 1 /\ ~panicked')
        /\ (op' = "decrease_page" /\ page > 1
              => page' = page - 1 /\ page' >= 1 /\ ~panicked')
        /\ (op' \notin {"increase_page", "decrease_page"} => page' = page) ]_vars

\* retreat() was called at page 2
C4_Witness == op = "decrease_page" /\ page = 1 /\ ~panicked

\* C10: a PostPageRef built from a PostPage carries its board_id, id, page,
\* max and floor.
C10_RefCarriesFields ==
    op = "PostPageRef::try_from" =>
        Unwrap(ret) = [board_id |-> board_id, id |-> id, page |-> page,
                       max |-> max, floor |-> floor]

-----------------------------------------------------------------------------
(* The URL functions, applied to the URL strings of a bounded set.         *)

QueryPairSet ==
    ({"bsn"} \X {<<"1", "0", "0">>})
      \cup ({"snA"} \X {<<"2", "0", "0">>, <<"2", "0", "1">>})
      \cup ({"tnum"} \X {<<"5">>, <<"7", "0", "0", "0", "0">>, <<"a">>, <<>>,
                         <<"+", "5">>, <<"%", "2", "B", "5">>})
      \cup ({"page"} \X {<<"1">>})

\* the strings Url::parse rejects, and the URLs with up to MaxPairs pairs
UrlStrings ==
    {[valid |-> FALSE, query |-> <<>>]}
      \cup [valid : {TRUE}, query : SeqUpTo(QueryPairSet, MaxPairs)]

NoDocument == [pager |-> <<>>, blocks |-> <<>>]

\* a PostPage that was constructed and not used
Unused ==
    /\ \E b \in BoardIds, i \in ThreadIds : new(b, i)
    /\ fetches = [p \in Pages |-> 0]
    /\ inits = 0
    /\ panicked = FALSE
    /\ op = "new"
    /\ document = None
    /\ ret = None

InitUrl ==
    /\ Unused
    /\ web \in [url : UrlStrings, document : {NoDocument}]
    /\ fn = "none"
    /\ out = None

\* PostPageUrlParameter::try_from(value: String)
parameter_from_string ==
    /\ fn' = "PostPageUrlParameter::try_from(String)"
    /\ out' = ParameterFromString(web.url)
    /\ UNCHANGED <<web, pageVars>>

\* PostPageUrlParameter::try_from(url: Url), on a string that parsed
parameter_from_url ==
    /\ web.url.valid
    /\ fn' = "PostPageUrlParameter::try_from(Url)"
    /\ out' = ParameterFromUrl(web.url)
    /\ UNCHANGED <<web, pageVars>>

\* Post::try_id_from_url(&url)
id_from_url ==
    /\ web.url.valid
    /\ fn' = "try_id_from_url"
    /\ out' = try_id_from_url(web.url)
    /\ UNCHANGED <<web, pageVars>>

\* Post::try_last_floor_from_url(&url)
last_floor_from_url ==
    /\ web.url.valid
    /\ fn' = "try_last_floor_from_url"
    /\ out' = try_last_floor_from_url(web.url)
    /\ UNCHANGED <<web, pageVars>>

NextUrl ==
    \/ parameter_from_string
    \/ parameter_from_url
    \/ id_from_url
    \/ last_floor_from_url

SpecUrl == InitUrl /\ [][NextUrl]_vars

\* the value of the last key=value pair of the query with this key
ValueOf(u, key) ==
    LET q == QueryPairs(u)
        I == {i \in 1..Len(q) : q[i][1] = key}
    IN  IF I = {} THEN None
        ELSE Some(q[CHOOSE i \in I : \A j \in I : j <= i][2])

ValueOr(u, key, default) ==
    IF IsSome(ValueOf(u, key)) THEN Unwrap(ValueOf(u, key)) ELSE default

\* a decimal number of 16 bits: digits after an optional "+", at most 65535
IsU16Number(t) ==
    LET d == IF t # <<>> /\ Head(t) = "+" THEN Tail(t) ELSE t
    IN  IsNumber(d) /\ NumberValue(d) <= U16Max

U16NumberValue(t) ==
    NumberValue(IF t # <<>> /\ Head(t) = "+" THEN Tail(t) ELSE t)

\* a decimal number of any size: digits after an optional "+"
IsSignedNumber(t) == IsNumber(IF t # <<>> /\ Head(t) = "+" THEN Tail(t) ELSE t)

\* C7 as stated: the parser fails exactly on the strings that are no URL;
\* on success board_id and id are the values of bsn and snA, or empty, and
\* floor is the numeric value of tnum, or 0 when tnum is missing or is no
\* number.
C7_FloorIsNumericValue ==
    fn = "PostPageUrlParameter::try_from(String)" =>
        /\ out.ok <=> web.url.valid
        /\ out.ok =>
             /\ out.val.board_id = ValueOr(web.url, "bsn", <<>>)
             /\ out.val.id = ValueOr(web.url, "snA", <<>>)
             /\ out.val.floor =
                  IF IsSignedNumber(ValueOr(web.url, "tnum", <<>>))
                  THEN U16NumberValue(ValueOr(web.url, "tnum", <<>>))
                  ELSE 0

\* C7 as amended: the same, with floor the value of tnum when tnum is a
\* decimal number of 16 bits (digits after an optional "+", at most 65535)
\* and 0 otherwise; of a key that occurs more than once the last value counts.
C7_FloorIsU16ValueOrZero ==
    fn = "PostPageUrlParameter::try_from(String)" =>
        /\ out.ok <=> web.url.valid
        /\ ~out.ok => out.err = "invalid url string"
        /\ out.ok =>
             /\ out.val.board_id = ValueOr(web.url, "bsn", <<>>)
             /\ out.val.id = ValueOr(web.url, "snA", <<>>)
             /\ out.val.floor =
                  IF IsU16Number(ValueOr(web.url, "tnum", <<>>))
                  THEN U16NumberValue(ValueOr(web.url, "tnum", <<>>))
                  ELSE 0

\* the parser ran on bsn=100&snA=200&tnum=5
C7_Witness ==
    /\ fn = "PostPageUrlParameter::try_from(String)"
    /\ web.url.query = << <<"bsn", <<"1", "0", "0">> >>, <<"snA", <<"2", "0", "0">> >>,
                          <<"tnum", <<"5">> >> >>
    /\ out.ok
    /\ out.val = [board_id |-> <<"1", "0", "0">>, id |-> <<"2", "0", "0">>, floor |-> 5]

\* C9: the thread id and the last floor that Post extraction obtains from a
\* URL are the id and the floor the URL parameter parser derives from it.
C9_PostAgreesWithParser ==
    /\ fn = "try_id_from_url" /\ out.kind = "some"
         => out.val = ParameterFromUrl(web.url).val.id
    /\ fn = "try_last_floor_from_url" /\ out.kind = "some"
         => out.val = ParameterFromUrl(web.url).val.floor

-----------------------------------------------------------------------------
(* Post extraction, applied to the WebSites of a bounded set.              *)

ExtractPairSet ==
    {<<"snA", <<"2", "0", "0">> >>, <<"tnum", <<"5">> >>, <<"tnum", <<"a">> >>}

ExtractUrls == [valid : {TRUE}, query : SeqUpTo(ExtractPairSet, 2)]

PlainWrapper == [text |-> << <<"a">> >>, div |-> <<>>]

\* a wrapper whose div holds a linked image without data-src
SourcelessImageWrapper ==
    [text |-> <<>>, div |-> <<[youtube |-> <<>>, img |-> <<None>>, text |-> <<>>]>>]

ExtractBlocks ==
    [title : {<<>>, << << <<"T">>, <<"i">> >> >>},
     content : {<<PlainWrapper>>, <<SourcelessImageWrapper>>},
     user : {None, Some("u1")},
     floor : {<<>>, <<None>>, <<Some(<<"3">>)>>, <<Some(<<"x">>)>>},
     date : {<<>>, << <<>> >>, << << <<"d">> >> >>}]

ExtractDocuments == [pager : {<<>>}, blocks : SeqUpTo(ExtractBlocks, MaxBlocks)]

InitExtract ==
    /\ Unused
    /\ web \in [url : ExtractUrls, document : ExtractDocuments]
    /\ fn = "none"
    /\ out = None

\* Post::try_from(web)
post_from_website ==
    /\ fn' = "Post::try_from"
    /\ out' = PostFromWebSite(web)
    /\ UNCHANGED <<web, pageVars>>

\* Post::posts(&document.root_element())
posts_of_document ==
    /\ fn' = "Post::posts"
    /\ out' = posts(web.document)
    /\ UNCHANGED <<web, pageVars>>

NextExtract ==
    \/ post_from_website
    \/ posts_of_document

SpecExtract == InitExtract /\ [][NextExtract]_vars

\* C5: Post extraction ends with a complete Post or with the typed error of
\* its cause (no thread id in the URL, no last floor in the URL, no title in
\* the first reply block), and in no other way.
C5_PostOrTypedError ==
    fn = "Post::try_from" =>
        /\ out.kind \in {"ok", "err"}
        /\ out.kind = "err" =>
             \/ out.err = "can't get id" /\ ~IsSome(ValueOf(web.url, "snA"))
             \/ out.err = "can't get last floor"
                  /\ ~IsSignedNumber(ValueOr(web.url, "tnum", <<>>))
             \/ out.err = "post title invalid"
                  /\ (web.document.blocks = <<>> \/ Head(web.document.blocks).title = <<>>)
        /\ out.kind = "ok" =>
             /\ IsSome(ValueOf(web.url, "snA"))
             /\ IsSignedNumber(ValueOr(web.url, "tnum", <<>>))
             /\ out.val.title = Concat(Head(Head(web.document.blocks).title))

\* a reply block from which author and date can be derived
HasAuthorAndDate(b) == IsSome(b.user) /\ b.date # <<>> /\ Head(b.date) # <<>>

\* a reply block whose description refers to a media element without source
HasSourcelessMedia(b) ==
    \E i \in 1..Len(b.content) : \E j \in 1..Len(b.content[i].div) :
        LET d == b.content[i].div[j]
        IN  \/ d.youtube # <<>> /\ ~IsSome(Head(d.youtube))
            \/ \E k \in 1..Len(d.img) : ~IsSome(d.img[k])

\* the authors and dates of the blocks of bs at the indices in K, in order
RECURSIVE AuthorsAndDates(_, _, _)
AuthorsAndDates(bs, K, n) ==
    IF n = 0 THEN <<>>
    ELSE IF n \in K
         THEN Append(AuthorsAndDates(bs, K, n - 1),
                     <<Unwrap(bs[n].user), Head(Head(bs[n].date))>>)
    ELSE AuthorsAndDates(bs, K, n - 1)

\* C6: Post::posts never aborts and returns, in document order, the reply
\* blocks with a derivable description, author and date: a block without
\* author or date is omitted and every other block is retained (a block
\* whose media lacks a source may count either way).
C6_PostsKeepsDerivableBlocks ==
    fn = "Post::posts" =>
        /\ out.kind = "ok"
        /\ LET bs == web.document.blocks
               must == {i \in 1..Len(bs) : HasAuthorAndDate(bs[i]) /\ ~HasSourcelessMedia(bs[i])}
               may == {i \in 1..Len(bs) : HasAuthorAndDate(bs[i])}
           IN  \E K \in SUBSET may :
                 /\ must \subseteq K
                 /\ [i \in 1..Len(out.val) |-> <<out.val[i].user, out.val[i].date>>]
                      = AuthorsAndDates(bs, K, Len(bs))

-----------------------------------------------------------------------------
(* The description of one reply block, over the contents of a bounded set. *)

TextNodes == {<<"a">>}

Sources == {None, Some(<<"p">>), Some(<<"q">>)}

Divs ==
    [youtube : SeqUpTo(Sources, 1),
     img : SeqUpTo(Sources, MaxImgs),
     text : SeqUpTo(TextNodes, MaxTexts)]

Wrappers == [text : SeqUpTo(TextNodes, MaxTexts), div : SeqUpTo(Divs, MaxDivs)]

InitDesc ==
    /\ Unused
    /\ \E c \in SeqUpTo(Wrappers, MaxWrappers) :
         web = [url |-> [valid |-> FALSE, query |-> <<>>],
                document |-> [pager |-> <<>>,
                              blocks |-> <<[GoodBlock EXCEPT !.content = c]>>]]
    /\ fn = "none"
    /\ out = None

\* PostContent::try_desc_from_html(&dom) on the reply block
desc_from_html ==
    /\ fn' = "try_desc_from_html"
    /\ out' = try_desc_from_html(Head(web.document.blocks))
    /\ UNCHANGED <<web, pageVars>>

NextDesc == desc_from_html

SpecDesc == InitDesc /\ [][NextDesc]_vars

\* the tokens C8 expects of a div child, each the Option of its text
ClaimedDivTokens(d) ==
    IF d.youtube # <<>> THEN <<Head(d.youtube)>>
    ELSE IF d.img # <<>> THEN d.img
    ELSE <<Some(Concat(d.text))>>

\* the tokens C8 expects of a wrapper
ClaimedWrapperTokens(w) ==
    IF w.div = <<>> THEN <<Some(Concat(w.text))>>
    ELSE Flatten([j \in 1..Len(w.div) |-> ClaimedDivTokens(w.div[j])])

\* a content with a linked image that has no source to refer to
HasSourcelessImage(c) ==
    \E i \in 1..Len(c) : \E j \in 1..Len(c[i].div) :
        /\ c[i].div[j].youtube = <<>>
        /\ \E k \in 1..Len(c[i].div[j].img) : ~IsSome(c[i].div[j].img[k])

\* C8: every div child of a wrapper gives one token for its video embed, or
\* else one token per linked image, or else one token of its text; a
\* wrapper without div children gives exactly one token, its text; the
\* tokens of a reply come in document order.  (Stated for the contents
\* whose linked images all have a source.)
C8_TokensByPriority ==
    fn = "try_desc_from_html" /\ ~HasSourcelessImage(Head(web.document.blocks).content) =>
        LET c == Head(web.document.blocks).content
            claimed == Flatten([i \in 1..Len(c) |-> ClaimedWrapperTokens(c[i])])
        IN  /\ out.kind = "some"
            /\ Len(out.val) = Len(claimed)
            /\ \A i \in 1..Len(claimed) : IsSome(claimed[i]) => out.val[i] = Unwrap(claimed[i])

=============================================================================
